---- MODULE Spec2Model ----
(***************************************************************************)
(* Request / commitment lifecycle of cloudapi.                             *)
(*                                                                         *)
(* The store holds CollaborationRequest rows and Commitment rows.  Every   *)
(* HTTP handler of CommitmentViewSet (create, accept, reject, execute) is  *)
(* run by a worker process; the workers interleave statement by statement. *)
(* A worker reads committed rows only, its own writes become visible when  *)
(* its transaction commits, select_for_update() and UPDATE take an         *)
(* exclusive row lock that is held until the end of the transaction.       *)
(*                                                                         *)
(* Quantities are Decimal(12,2) in the code; they are counted here in      *)
(* whole units.  An optional quantity is <<>> (None) or <<n>>.             *)
(***************************************************************************)
EXTENDS Integers, Sequences, FiniteSets, TLC

\* ---- bounds ----

\* the number of handler calls in a run
MaxCalls == 4
MaxAmount == 1
MaxTarget == 2

\* the concurrent workers
Procs == {"w1", "w2"}

\* the primary keys of the requests that exist
RequestIds == {"r1"}
CommitmentIds == 1..MaxCalls

None == <<>>
Some(n) == <<n>>
Amounts == {None} \cup {Some(n) : n \in 0..MaxAmount}
Targets == {None} \cup {Some(n) : n \in 0..MaxTarget}

VARIABLES
    requests,      \* table collaboration_request: id -> row
    commitments,   \* table commitment: sequence of rows, id = index
    req_lock,      \* request id -> set of workers holding its row lock
    commit_lock,   \* commitment id -> set of workers holding its row lock
    pc,            \* worker -> position in its handler
    commit,        \* worker -> its local Commitment object
    req,           \* worker -> its local CollaborationRequest object
    response,      \* the response returned by the step just taken, if any
    calls          \* the number of handler calls started so far

vars == <<requests, commitments, req_lock, commit_lock, pc, commit, req, response, calls>>

\* ---- Python helpers ----

\* truthiness of an optional Decimal: None and 0 are falsy
Truthy(q) == q # None /\ q[1] # 0

\* `q or Decimal("0")`
OrZero(q) == IF Truthy(q) THEN q[1] ELSE 0

Max(a, b) == IF a >= b THEN a ELSE b

\* ---- models.py ----

NewRequest(t) ==
    [target_qty |-> t, reserved_qty |-> 0, fulfilled_qty |-> 0, status |-> "OPEN"]

NoRequest == [target_qty |-> None, reserved_qty |-> 0, fulfilled_qty |-> 0, status |-> "-"]

NoCommit == [id |-> 0, request |-> "-", amount |-> None, status |-> "-"]

NoResponse == [code |-> 0, error |-> ""]

Response(code, error) == [code |-> code, error |-> error]

\* Model.save(update_fields=fields): only the named columns of the row are
\* written from the object.
SaveFields(row, obj, fields) ==
    [f \in DOMAIN row |-> IF f \in fields THEN obj[f] ELSE row[f]]

\* ---- services.py ----

\* faulty variant of recompute_request_status: fulfilled must exceed the target
recompute_request_status_strict(r) ==
    IF r.target_qty # None /\ r.fulfilled_qty > r.target_qty[1]
    THEN [r EXCEPT !.status = "COMPLETED"]
    ELSE IF r.reserved_qty = 0 /\ r.fulfilled_qty = 0
         THEN [r EXCEPT !.status = "OPEN"]
         ELSE [r EXCEPT !.status = "RESERVED"]

\* faulty variant of recompute_request_status: a COMPLETED request is kept
recompute_request_status_sticky(r) ==
    IF r.status = "COMPLETED" THEN r
    ELSE IF r.target_qty # None /\ r.fulfilled_qty >= r.target_qty[1]
    THEN [r EXCEPT !.status = "COMPLETED"]
    ELSE IF r.reserved_qty = 0 /\ r.fulfilled_qty = 0
         THEN [r EXCEPT !.status = "OPEN"]
         ELSE [r EXCEPT !.status = "RESERVED"]

recompute_request_status(r) ==
    IF r.target_qty # None /\ r.fulfilled_qty >= r.target_qty[1]
    THEN [r EXCEPT !.status = "COMPLETED"]
    ELSE IF r.reserved_qty = 0 /\ r.fulfilled_qty = 0
         THEN [r EXCEPT !.status = "OPEN"]
         ELSE [r EXCEPT !.status = "RESERVED"]

\* the object update_request_on_new_commitment saves
ReserveOnNewCommitment(r, c) ==
    recompute_request_status(
        IF Truthy(c.amount)
        THEN [r EXCEPT !.reserved_qty = r.reserved_qty + c.amount[1]]
        ELSE r)

\* faulty variant of MoveOnExecute: reserved_qty lowered without the max(0, .)
MoveOnExecuteUnclamped(r, c) ==
    LET amt == OrZero(c.amount) IN
    recompute_request_status(
        IF amt > 0
        THEN [r EXCEPT !.reserved_qty = r.reserved_qty - amt,
                       !.fulfilled_qty = r.fulfilled_qty + amt]
        ELSE r)

\* faulty variant of MoveOnExecute: the amount is credited but stays reserved
MoveOnExecuteKeepsReserved(r, c) ==
    LET amt == OrZero(c.amount) IN
    recompute_request_status(
        IF amt > 0
        THEN [r EXCEPT !.fulfilled_qty = r.fulfilled_qty + amt]
        ELSE r)

\* the object execute_commitment_service saves
MoveOnExecute(r, c) ==
    LET amt == OrZero(c.amount) IN
    recompute_request_status(
        IF amt > 0
        THEN [r EXCEPT !.reserved_qty = Max(0, r.reserved_qty - amt),
                       !.fulfilled_qty = r.fulfilled_qty + amt]
        ELSE r)

\* ---- state ----

Init ==
    /\ requests \in [RequestIds -> {NewRequest(t) : t \in Targets}]
    /\ commitments = <<>>
    /\ req_lock = [r \in RequestIds |-> {}]
    /\ commit_lock = [c \in CommitmentIds |-> {}]
    /\ pc = [p \in Procs |-> "idle"]
    /\ commit = [p \in Procs |-> NoCommit]
    /\ req = [p \in Procs |-> NoRequest]
    /\ response = NoResponse
    /\ calls = 0

\* a handler returns: its transaction ends, its row locks are released
Finish(p, res) ==
    /\ pc' = [pc EXCEPT ![p] = "idle"]
    /\ commit' = [commit EXCEPT ![p] = NoCommit]
    /\ req' = [req EXCEPT ![p] = NoRequest]
    /\ response' = res
    /\ req_lock' = [r \in DOMAIN req_lock |-> req_lock[r] \ {p}]
    /\ commit_lock' = [c \in CommitmentIds |-> commit_lock[c] \ {p}]

\* a worker takes a new call
Begin(p) ==
    /\ pc[p] = "idle"
    /\ calls < MaxCalls
    /\ calls' = calls + 1

\* ---- CommitmentViewSet.create / perform_create ----

\* serializer.save(status=ACTIVE) inserts the row inside the transaction, then
\* update_request_on_new_commitment: select_for_update().get(pk=request_id)
CreateLock(p, r, a) ==
    /\ Begin(p)
    /\ req_lock[r] \subseteq {p}
    /\ req_lock' = [req_lock EXCEPT ![r] = {p}]
    /\ commit' = [commit EXCEPT ![p] =
                    [id |-> 0, request |-> r, amount |-> a, status |-> "ACTIVE"]]
    /\ req' = [req EXCEPT ![p] = requests[r]]
    /\ pc' = [pc EXCEPT ![p] = "create_save"]
    /\ UNCHANGED <<requests, commitments, commit_lock>> /\ response' = NoResponse

\* reserved_qty += amount; recompute; save(reserved_qty, status); commit
CreateSave(p) ==
    /\ pc[p] = "create_save"
    /\ UNCHANGED calls
    /\ LET r == commit[p].request
           obj == ReserveOnNewCommitment(req[p], commit[p])
       IN /\ requests' = [requests EXCEPT ![r] =
                            SaveFields(@, obj, {"reserved_qty", "status"})]
          /\ commitments' = Append(commitments,
                [request |-> r, amount |-> commit[p].amount,
                 status |-> commit[p].status])
    /\ Finish(p, Response(201, ""))

\* ---- CommitmentViewSet.get_object ----

\* faulty variant of GetObject: the request looked up by the commitment's pk,
\* which finds the request in the same position of its table
GetObjectRequestByCommitPk(c) ==
    [id |-> c,
     request |-> IF c = 1 THEN CHOOSE r \in DOMAIN requests :
                                  \A x \in DOMAIN requests : r = x \/ r # "r2"
                 ELSE commitments[c].request,
     amount |-> commitments[c].amount, status |-> commitments[c].status]

\* the Commitment object get_object() returns for an existing pk
GetObject(c) ==
    [id |-> c, request |-> commitments[c].request,
     amount |-> commitments[c].amount, status |-> commitments[c].status]

\* a row removed by a cascade delete stays in the sequence as a tombstone, so
\* that primary keys are never reused
Exists(c) == c \in 1..Len(commitments) /\ commitments[c].status # "DELETED"

\* faulty variant of IsActive: only an executed commitment is refused
IsActiveOrCancelled(c) == c.status # "FULFILLED"

\* the check of accept and reject: commit.status != ACTIVE is refused
IsActive(c) == c.status = "ACTIVE"

\* ---- CommitmentViewSet.accept ----

\* req.status = RequestStatus.COMPLETED
AcceptedRequest(r) == [r EXCEPT !.status = "COMPLETED"]

\* faulty variant of AcceptFields: a save() without update_fields
AcceptFieldsAll == {"target_qty", "reserved_qty", "fulfilled_qty", "status"}

\* req.save(update_fields=["status"])
AcceptFields == {"status"}

AcceptNotFound(p, c) ==
    /\ Begin(p)
    /\ ~Exists(c)
    /\ Finish(p, Response(404, "Http404"))
    /\ UNCHANGED <<requests, commitments>>

\* get_object() (select_related("request")) and the status check
AcceptGet(p, c) ==
    /\ Begin(p)
    /\ Exists(c)
    /\ IF ~IsActive(GetObject(c))
       THEN /\ Finish(p, Response(400, "NotActive"))
            /\ UNCHANGED <<requests, commitments>>
       ELSE /\ commit' = [commit EXCEPT ![p] = GetObject(c)]
            /\ req' = [req EXCEPT ![p] = requests[GetObject(c).request]]
            /\ pc' = [pc EXCEPT ![p] = "accept_save"]
            /\ UNCHANGED <<requests, commitments, req_lock, commit_lock>> /\ response' = NoResponse

\* req.status = COMPLETED; req.save(update_fields=["status"]); commit
AcceptSave(p) ==
    /\ pc[p] = "accept_save"
    /\ UNCHANGED calls
    /\ commit[p].request \in DOMAIN requests
    /\ req_lock[commit[p].request] \subseteq {p}
    /\ requests' = [requests EXCEPT ![commit[p].request] =
                       SaveFields(@, AcceptedRequest(req[p]), AcceptFields)]
    /\ Finish(p, Response(200, ""))
    /\ UNCHANGED commitments

\* ---- CommitmentViewSet.reject ----

\* faulty variant of RejectedRequest: the status taken from the quantities
RejectedRequestRecomputed(r) ==
    IF r.reserved_qty = 0 /\ r.fulfilled_qty = 0
    THEN [r EXCEPT !.status = "OPEN"]
    ELSE [r EXCEPT !.status = "RESERVED"]

\* req.status = RequestStatus.OPEN
RejectedRequest(r) == [r EXCEPT !.status = "OPEN"]

RejectNotFound(p, c) ==
    /\ Begin(p)
    /\ ~Exists(c)
    /\ Finish(p, Response(404, "Http404"))
    /\ UNCHANGED <<requests, commitments>>

RejectGet(p, c) ==
    /\ Begin(p)
    /\ Exists(c)
    /\ IF ~IsActive(GetObject(c))
       THEN /\ Finish(p, Response(400, "NotActive"))
            /\ UNCHANGED <<requests, commitments>>
       ELSE /\ commit' = [commit EXCEPT ![p] = GetObject(c)]
            /\ req' = [req EXCEPT ![p] = requests[GetObject(c).request]]
            /\ pc' = [pc EXCEPT ![p] = "reject_save_commit"]
            /\ UNCHANGED <<requests, commitments, req_lock, commit_lock>> /\ response' = NoResponse

\* commit.status = CANCELLED; commit.save(update_fields=["status"])
RejectSaveCommit(p) ==
    /\ pc[p] = "reject_save_commit"
    /\ UNCHANGED calls
    /\ Exists(commit[p].id)
    /\ commit_lock[commit[p].id] \subseteq {p}
    /\ commit_lock' = [commit_lock EXCEPT ![commit[p].id] = {p}]
    /\ commit' = [commit EXCEPT ![p].status = "CANCELLED"]
    /\ pc' = [pc EXCEPT ![p] = "reject_save_req"]
    /\ UNCHANGED <<requests, commitments, req_lock, req>> /\ response' = NoResponse

\* req.status = OPEN; req.save(update_fields=["status"]); commit
RejectSaveReq(p) ==
    /\ pc[p] = "reject_save_req"
    /\ UNCHANGED calls
    /\ req_lock[commit[p].request] \subseteq {p}
    /\ requests' = [requests EXCEPT ![commit[p].request] =
                       SaveFields(@, RejectedRequest(req[p]), {"status"})]
    /\ commitments' = [commitments EXCEPT ![commit[p].id] =
                          SaveFields(@, commit[p], {"status"})]
    /\ Finish(p, Response(200, ""))

\* ---- exceptions.py ----

BusinessLogicErrors ==
    {"BusinessLogicError", "CommitmentAlreadyExecutedError", "RelatedRequestNotFoundError"}

\* faulty variant of status_code: no subclass overrides BusinessLogicError's 400
status_code_inherited(exc) == 400

\* the status_code attribute of each exception class
status_code(exc) ==
    IF exc = "RelatedRequestNotFoundError" THEN 404 ELSE 400

\* ---- CommitmentViewSet.execute / execute_commitment_service ----

\* the except clauses of execute, in their order
ExecuteError(exc) ==
    IF exc = "Http404" THEN Response(404, exc)
    ELSE IF exc \in BusinessLogicErrors THEN Response(status_code(exc), exc)
    ELSE IF exc = "ValidationError" THEN Response(400, exc)
    ELSE Response(500, exc)

ExecuteNotFound(p, c) ==
    /\ Begin(p)
    /\ ~Exists(c)
    /\ Finish(p, ExecuteError("Http404"))
    /\ UNCHANGED <<requests, commitments>>

\* faulty variant of AlreadyExecuted: the guard on the wrong status
AlreadyExecutedOrCancelledOnly(c) == c.status = "CANCELLED"

\* the guard of execute_commitment_service on the object it was handed
AlreadyExecuted(c) == c.status = "FULFILLED"

\* faulty variant of ExecutedCommitRow: the moved amount is zeroed and saved
ExecutedCommitRowConsumed(row, c) ==
    SaveFields(row, [c EXCEPT !.status = "FULFILLED", !.amount = Some(0)],
               {"status", "amount"})

\* commit.status = FULFILLED; commit.save(update_fields=["status"])
ExecutedCommitRow(row, c) ==
    SaveFields(row, [c EXCEPT !.status = "FULFILLED"], {"status"})

\* commit = self.get_object(), outside any transaction, and the guard of
\* execute_commitment_service on that object
ExecuteGet(p, c) ==
    /\ Begin(p)
    /\ Exists(c)
    /\ IF AlreadyExecuted(GetObject(c))
       THEN /\ Finish(p, ExecuteError("CommitmentAlreadyExecutedError"))
            /\ UNCHANGED <<requests, commitments>>
       ELSE /\ commit' = [commit EXCEPT ![p] = GetObject(c)]
            /\ pc' = [pc EXCEPT ![p] = "execute_lock"]
            /\ UNCHANGED <<requests, commitments, req_lock, commit_lock, req>> /\ response' = NoResponse

\* select_for_update().get(pk=commit.request_id)
ExecuteLock(p) ==
    /\ pc[p] = "execute_lock"
    /\ UNCHANGED calls
    /\ commit[p].request \in DOMAIN requests
    /\ req_lock[commit[p].request] \subseteq {p}
    /\ req_lock' = [req_lock EXCEPT ![commit[p].request] = {p}]
    /\ req' = [req EXCEPT ![p] = requests[commit[p].request]]
    /\ pc' = [pc EXCEPT ![p] = "execute_save"]
    /\ UNCHANGED <<requests, commitments, commit_lock, commit>> /\ response' = NoResponse

\* move the amount; commit.save(status); recompute; req.save(...); commit
ExecuteSave(p) ==
    /\ pc[p] = "execute_save"
    /\ UNCHANGED calls
    /\ commit_lock[commit[p].id] \subseteq {p}
    /\ LET obj == MoveOnExecute(req[p], commit[p])
       IN /\ requests' = [requests EXCEPT ![commit[p].request] =
                SaveFields(@, obj, {"reserved_qty", "fulfilled_qty", "status"})]
          /\ commitments' = [commitments EXCEPT ![commit[p].id] =
                ExecutedCommitRow(@, commit[p])]
    /\ Finish(p, Response(200, ""))

\* ---- specification ----

Create == \E p \in Procs, r \in DOMAIN requests, a \in Amounts : CreateLock(p, r, a)
CreateStep == \E p \in Procs : CreateSave(p)
Accept == \E p \in Procs, c \in CommitmentIds : AcceptNotFound(p, c) \/ AcceptGet(p, c)
AcceptStep == \E p \in Procs : AcceptSave(p)
Reject == \E p \in Procs, c \in CommitmentIds : RejectNotFound(p, c) \/ RejectGet(p, c)
RejectStep == \E p \in Procs : RejectSaveCommit(p) \/ RejectSaveReq(p)
Execute == \E p \in Procs, c \in CommitmentIds : ExecuteNotFound(p, c) \/ ExecuteGet(p, c)
ExecuteStep == \E p \in Procs : ExecuteLock(p) \/ ExecuteSave(p)

Next ==
    \/ Create \/ CreateStep
    \/ Accept \/ AcceptStep
    \/ Reject \/ RejectStep
    \/ Execute \/ ExecuteStep

Spec == Init /\ [][Next]_vars

TypeOK ==
    /\ \A r \in DOMAIN requests :
          /\ requests[r].target_qty \in Targets
          /\ requests[r].reserved_qty \in Nat
          /\ requests[r].fulfilled_qty \in Nat
          /\ requests[r].status \in {"OPEN", "RESERVED", "COMPLETED"}
    /\ Len(commitments) <= MaxCalls
    /\ calls \in 0..MaxCalls
    /\ \A c \in 1..Len(commitments) :
          /\ commitments[c].request \in DOMAIN requests
          /\ commitments[c].amount \in Amounts
          /\ commitments[c].status \in {"ACTIVE", "FULFILLED", "CANCELLED"}
    /\ \A r \in DOMAIN requests : Cardinality(req_lock[r]) <= 1
    /\ \A c \in CommitmentIds : Cardinality(commit_lock[c]) <= 1

\* ---- failures: a cascade delete and a lock cycle ----

\* Commitment.request is on_delete=CASCADE: deleting the project of request r
\* deletes r and its commitments in one transaction, which needs their row locks
DeleteRequest(r) ==
    /\ r \in DOMAIN requests
    /\ req_lock[r] = {}
    /\ \A c \in 1..Len(commitments) : commitments[c].request = r => commit_lock[c] = {}
    /\ requests' = [x \in DOMAIN requests \ {r} |-> requests[x]]
    /\ commitments' = [c \in 1..Len(commitments) |->
                          IF commitments[c].request = r
                          THEN [request |-> r, amount |-> None, status |-> "DELETED"]
                          ELSE commitments[c]]
    /\ response' = NoResponse
    /\ UNCHANGED <<req_lock, commit_lock, pc, commit, req, calls>>

\* the serializer has validated the request pk and serializer.save(status=ACTIVE)
\* has inserted the row inside the transaction of perform_create
CreateInsert(p, r, a) ==
    /\ Begin(p)
    /\ commit' = [commit EXCEPT ![p] =
                    [id |-> 0, request |-> r, amount |-> a, status |-> "ACTIVE"]]
    /\ pc' = [pc EXCEPT ![p] = "create_lock"]
    /\ UNCHANGED <<requests, commitments, req_lock, commit_lock, req>>
    /\ response' = NoResponse

\* update_request_on_new_commitment: select_for_update().get(pk=request_id)
CreateLockRow(p) ==
    /\ pc[p] = "create_lock"
    /\ UNCHANGED calls
    /\ commit[p].request \in DOMAIN requests
    /\ req_lock[commit[p].request] \subseteq {p}
    /\ req_lock' = [req_lock EXCEPT ![commit[p].request] = {p}]
    /\ req' = [req EXCEPT ![p] = requests[commit[p].request]]
    /\ pc' = [pc EXCEPT ![p] = "create_save"]
    /\ UNCHANGED <<requests, commitments, commit_lock, commit>>
    /\ response' = NoResponse

\* faulty variant of RolledBack: the row inserted before the exception stays
RolledBackKeepsInsert(rows, c) ==
    Append(rows, [request |-> c.request, amount |-> c.amount, status |-> c.status])

\* @transaction.atomic on perform_create: the table after the block is left by
\* an exception, c being the row inserted inside the block
RolledBack(rows, c) == rows

\* .get() raises DoesNotExist: RelatedRequestNotFoundError leaves perform_create
CreateRequestMissing(p) ==
    /\ pc[p] = "create_lock"
    /\ UNCHANGED calls
    /\ commit[p].request \notin DOMAIN requests
    /\ commitments' = RolledBack(commitments, commit[p])
    /\ Finish(p, Response(status_code("RelatedRequestNotFoundError"),
                          "RelatedRequestNotFoundError"))
    /\ UNCHANGED requests

\* req.save(update_fields=["status"]) updates no row: DatabaseError
AcceptRequestMissing(p) ==
    /\ pc[p] = "accept_save"
    /\ UNCHANGED calls
    /\ commit[p].request \notin DOMAIN requests
    /\ Finish(p, Response(500, "DatabaseError"))
    /\ UNCHANGED <<requests, commitments>>

\* commit.save(update_fields=["status"]) updates no row: DatabaseError
RejectCommitMissing(p) ==
    /\ pc[p] = "reject_save_commit"
    /\ UNCHANGED calls
    /\ ~Exists(commit[p].id)
    /\ Finish(p, Response(500, "DatabaseError"))
    /\ UNCHANGED <<requests, commitments>>

\* .get() raises DoesNotExist: RelatedRequestNotFoundError
ExecuteRequestMissing(p) ==
    /\ pc[p] = "execute_lock"
    /\ UNCHANGED calls
    /\ commit[p].request \notin DOMAIN requests
    /\ Finish(p, ExecuteError("RelatedRequestNotFoundError"))
    /\ UNCHANGED <<requests, commitments>>

\* execute p holds the request row and waits for the commitment row, reject q
\* holds the commitment row and waits for the request row
Deadlocked(p, q) ==
    /\ pc[p] = "execute_save" /\ pc[q] = "reject_save_req"
    /\ commit_lock[commit[p].id] = {q}
    /\ req_lock[commit[q].request] = {p}

\* the database ends the lock cycle by aborting the execute: OperationalError
\* out of commit.save, caught by `except Exception`
ExecuteAborted(p) ==
    /\ \E q \in Procs : Deadlocked(p, q)
    /\ UNCHANGED calls
    /\ Finish(p, ExecuteError("OperationalError"))
    /\ UNCHANGED <<requests, commitments>>

\* the database ends the lock cycle by aborting the reject: OperationalError
\* out of req.save
RejectAborted(q) ==
    /\ \E p \in Procs : Deadlocked(p, q)
    /\ UNCHANGED calls
    /\ Finish(q, Response(500, "OperationalError"))
    /\ UNCHANGED <<requests, commitments>>

Delete == \E r \in RequestIds : DeleteRequest(r)
CreateBegin == \E p \in Procs, r \in DOMAIN requests, a \in Amounts : CreateInsert(p, r, a)
CreateLockStep == \E p \in Procs : CreateLockRow(p)
CreateFail == \E p \in Procs : CreateRequestMissing(p)
AcceptFail == \E p \in Procs : AcceptRequestMissing(p)
RejectFail == \E p \in Procs : RejectCommitMissing(p) \/ RejectAborted(p)
ExecuteFail == \E p \in Procs : ExecuteRequestMissing(p) \/ ExecuteAborted(p)

NextFail ==
    \/ CreateBegin \/ CreateLockStep \/ CreateStep \/ CreateFail
    \/ Accept \/ AcceptStep \/ AcceptFail
    \/ Reject \/ RejectStep \/ RejectFail
    \/ Execute \/ ExecuteStep \/ ExecuteFail
    \/ Delete

\* the requests start without a target or with the largest one
InitFail ==
    /\ requests \in [RequestIds -> {NewRequest(None), NewRequest(Some(MaxTarget))}]
    /\ commitments = <<>>
    /\ req_lock = [r \in RequestIds |-> {}]
    /\ commit_lock = [c \in CommitmentIds |-> {}]
    /\ pc = [p \in Procs |-> "idle"]
    /\ commit = [p \in Procs |-> NoCommit]
    /\ req = [p \in Procs |-> NoRequest]
    /\ response = NoResponse
    /\ calls = 0

SpecFail == InitFail /\ [][NextFail]_vars

\* ---- two requests ----

TwoRequestIds == {"r1", "r2"}

\* r1 with a target that one commitment can reach; r2 without a target, after
\* the create of a first commitment on it
InitTwo ==
    /\ requests = [r \in TwoRequestIds |->
                      IF r = "r1" THEN NewRequest(Some(MaxAmount))
                      ELSE ReserveOnNewCommitment(NewRequest(None),
                                                  [amount |-> Some(MaxAmount)])]
    /\ commitments = <<[request |-> "r2", amount |-> Some(MaxAmount), status |-> "ACTIVE"]>>
    /\ req_lock = [r \in TwoRequestIds |-> {}]
    /\ commit_lock = [c \in CommitmentIds |-> {}]
    /\ pc = [p \in Procs |-> "idle"]
    /\ commit = [p \in Procs |-> NoCommit]
    /\ req = [p \in Procs |-> NoRequest]
    /\ response = NoResponse
    /\ calls = 1

SpecTwo == InitTwo /\ [][Next]_vars

\* ---- the status rule on its own ----

RequestStatuses == {"OPEN", "RESERVED", "COMPLETED"}

\* every row the three quantity columns and the status column can hold
AnyRequest ==
    [target_qty : Targets, reserved_qty : 0..(MaxTarget + 1),
     fulfilled_qty : 0..(MaxTarget + 1), status : RequestStatuses]

InitStatus ==
    /\ requests \in [RequestIds -> AnyRequest]
    /\ commitments = <<>>
    /\ req_lock = [r \in RequestIds |-> {}]
    /\ commit_lock = [c \in CommitmentIds |-> {}]
    /\ pc = [p \in Procs |-> "idle"]
    /\ commit = [p \in Procs |-> NoCommit]
    /\ req = [p \in Procs |-> NoRequest]
    /\ response = NoResponse
    /\ calls = 0

\* recompute_request_status(req) on the row of request r
RecomputeStatus(r) ==
    /\ calls < MaxCalls
    /\ calls' = calls + 1
    /\ requests' = [requests EXCEPT ![r] = recompute_request_status(@)]
    /\ UNCHANGED <<commitments, req_lock, commit_lock, pc, commit, req, response>>

NextStatus == \E r \in DOMAIN requests : RecomputeStatus(r)

SpecStatus == InitStatus /\ [][NextStatus]_vars

\* ---- properties ----

\* a worker leaves position `from` by returning from its handler
Returns(p, from) == pc[p] = from /\ pc'[p] = "idle"

\* the status rule of the specification, on plain quantities
StatusRule(t, r, f) ==
    IF t # None /\ f >= t[1] THEN "COMPLETED"
    ELSE IF r = 0 /\ f = 0 THEN "OPEN"
    ELSE "RESERVED"

RECURSIVE FulfilledSum(_, _)
\* the sum of the amounts of the FULFILLED commitments of request r among
\* the first n rows
FulfilledSum(r, n) ==
    IF n = 0 THEN 0
    ELSE FulfilledSum(r, n - 1) +
         (IF commitments[n].request = r /\ commitments[n].status = "FULFILLED"
          THEN OrZero(commitments[n].amount) ELSE 0)

\* C1: every Request with a target has reserved_qty <= target_qty and
\* fulfilled_qty <= target_qty, in every reachable state.
C1_WithinTarget ==
    \A r \in DOMAIN requests :
        requests[r].target_qty # None =>
            /\ requests[r].reserved_qty <= requests[r].target_qty[1]
            /\ requests[r].fulfilled_qty <= requests[r].target_qty[1]

\* C2: fulfilled_qty of a Request always equals the sum of the amounts of its
\* FULFILLED commitments (each commitment is credited at most once).
C2_CreditedOnce ==
    \A r \in DOMAIN requests :
        requests[r].fulfilled_qty = FulfilledSum(r, Len(commitments))

\* C3: once a commitment is FULFILLED or CANCELLED no step changes its status.
C3_TerminalStatus ==
    [][\A c \in 1..Len(commitments) :
          commitments[c].status \in {"FULFILLED", "CANCELLED"} =>
              commitments'[c].status = commitments[c].status]_vars

\* C4: a create whose amount would take reserved_qty above the target fails
\* with ValidationError and inserts no Commitment.
C4_AdmissionCheck ==
    [][\A p \in Procs :
          (/\ Returns(p, "create_save")
           /\ requests[commit[p].request].target_qty # None
           /\ requests[commit[p].request].reserved_qty + OrZero(commit[p].amount)
                 > requests[commit[p].request].target_qty[1])
          => /\ response'.error = "ValidationError"
             /\ commitments' = commitments]_vars

\* C5: a create on a Request that is not OPEN fails with BusinessLogicError,
\* inserts no Commitment and leaves the Request as it was.
C5_CreateNeedsOpen ==
    [][\A p \in Procs :
          (/\ Returns(p, "create_save")
           /\ requests[commit[p].request].status # "OPEN")
          => /\ response'.error = "BusinessLogicError"
             /\ commitments' = commitments
             /\ requests' = requests]_vars

\* C6: an execute called on a commitment that is FULFILLED answers
\* CommitmentAlreadyExecutedError and changes no Request and no Commitment.
C6_SecondExecuteFails ==
    [][\A p \in Procs, c \in 1..Len(commitments) :
          (ExecuteGet(p, c) /\ commitments[c].status = "FULFILLED")
          => /\ response' = Response(400, "CommitmentAlreadyExecutedError")
             /\ pc'[p] = "idle"
             /\ requests' = requests
             /\ commitments' = commitments]_vars

\* C6 witness: a second execute was answered with the error, the commitment
\* FULFILLED and its amount credited.
C6_Witness ==
    /\ response = Response(400, "CommitmentAlreadyExecutedError")
    /\ \E c \in 1..Len(commitments) :
          /\ commitments[c].status = "FULFILLED"
          /\ commitments[c].amount = Some(1)
          /\ requests[commitments[c].request].fulfilled_qty = 1

\* C7: a successful create leaves the Request RESERVED whatever the totals,
\* the new Commitment ACTIVE and reserved_qty raised by the amount, if any.
C7_CreateReserves ==
    [][\A p \in Procs :
          (Returns(p, "create_save") /\ response'.code = 201)
          => /\ requests'[commit[p].request].status = "RESERVED"
             /\ Len(commitments') = Len(commitments) + 1
             /\ commitments'[Len(commitments')].status = "ACTIVE"
             /\ requests'[commit[p].request].reserved_qty =
                   requests[commit[p].request].reserved_qty
                       + OrZero(commit[p].amount)]_vars

C9_RejectReopens ==
    [][\A p \in Procs :
          Returns(p, "reject_save_req")
          => LET rid == commit[p].request
             IN /\ commitments'[commit[p].id].status = "CANCELLED"
                /\ requests'[rid].status = "OPEN"
                /\ requests'[rid].reserved_qty = requests[rid].reserved_qty
                /\ requests'[rid].fulfilled_qty = requests[rid].fulfilled_qty
                /\ requests'[rid].target_qty = requests[rid].target_qty
                /\ response' = Response(200, "")]_vars

\* C9 witness: a rejected commitment of 1, its Request OPEN with the 1 still
\* reserved.
C9_Witness ==
    /\ response = Response(200, "")
    /\ \E c \in 1..Len(commitments) :
          /\ commitments[c].status = "CANCELLED"
          /\ commitments[c].amount = Some(1)
          /\ requests[commitments[c].request].status = "OPEN"
          /\ requests[commitments[c].request].reserved_qty = 1

\* C10: accept on an ACTIVE commitment makes the Request COMPLETED and changes
\* nothing else: no Commitment row, no quantity of the Request.
C10_AcceptCompletes ==
    [][\A p \in Procs :
          Returns(p, "accept_save")
          => LET rid == commit[p].request
             IN /\ requests'[rid].status = "COMPLETED"
                /\ requests'[rid].reserved_qty = requests[rid].reserved_qty
                /\ requests'[rid].fulfilled_qty = requests[rid].fulfilled_qty
                /\ requests'[rid].target_qty = requests[rid].target_qty
                /\ commitments' = commitments
                /\ response' = Response(200, "")]_vars

\* C10 witness: an accepted commitment still ACTIVE, its Request COMPLETED
\* with nothing fulfilled.
C10_Witness ==
    /\ response = Response(200, "")
    /\ \E c \in 1..Len(commitments) :
          /\ commitments[c].status = "ACTIVE"
          /\ requests[commitments[c].request].status = "COMPLETED"
          /\ requests[commitments[c].request].fulfilled_qty = 0
          /\ requests[commitments[c].request].reserved_qty = OrZero(commitments[c].amount)

\* C11: accept or reject on a commitment that is not ACTIVE answers 400, on
\* a missing commitment 404, and in both cases no row is changed.
C11_RefusedChangesNothing ==
    [][\A p \in Procs, c \in CommitmentIds :
          /\ ((AcceptGet(p, c) \/ RejectGet(p, c))
                 /\ commitments[c].status # "ACTIVE")
             => /\ response' = Response(400, "NotActive")
                /\ pc'[p] = "idle"
                /\ requests' = requests
                /\ commitments' = commitments
          /\ ((AcceptNotFound(p, c) \/ RejectNotFound(p, c))
                 /\ c \notin 1..Len(commitments))
             => /\ response' = Response(404, "Http404")
                /\ pc'[p] = "idle"
                /\ requests' = requests
                /\ commitments' = commitments]_vars

\* C11 witness: a call on a CANCELLED commitment was answered 400.
C11_Witness ==
    /\ response = Response(400, "NotActive")
    /\ \E c \in 1..Len(commitments) : commitments[c].status = "CANCELLED"

\* C12: once a Request is COMPLETED only a reject takes it out of COMPLETED,
\* and then to OPEN: no create, accept or execute lowers the status.
C12_CompletedStays ==
    [][\A r \in DOMAIN requests :
          (requests[r].status = "COMPLETED" /\ requests'[r].status # "COMPLETED")
          => /\ requests'[r].status = "OPEN"
             /\ \E p \in Procs : /\ Returns(p, "reject_save_req")
                                 /\ commit[p].request = r]_vars

\* C13: an execute on a commitment whose Request is not COMPLETED answers a
\* business error and changes neither the commitment nor the Request.
C13_ExecuteNeedsCompleted ==
    [][\A p \in Procs :
          (/\ Returns(p, "execute_save")
           /\ requests[commit[p].request].status # "COMPLETED")
          => /\ response'.code = 400
             /\ requests' = requests
             /\ commitments' = commitments]_vars

\* C16: reserved_qty and fulfilled_qty of every Request are never negative.
C16_NonNegative ==
    \A r \in DOMAIN requests :
        /\ requests[r].reserved_qty >= 0
        /\ requests[r].fulfilled_qty >= 0

\* C16 witness: the only commitment, of amount 1, was executed twice: the
\* second execute found reserved_qty 0 and left it 0.
C16_Witness ==
    /\ Len(commitments) = 1
    /\ commitments[1].status = "FULFILLED"
    /\ commitments[1].amount = Some(1)
    /\ requests[commitments[1].request].reserved_qty = 0
    /\ requests[commitments[1].request].fulfilled_qty = 2

RECURSIVE StatusSum(_, _, _)
\* the sum of the amounts of the commitments of request r whose status is in
\* `statuses`, among the first n rows
StatusSum(r, n, statuses) ==
    IF n = 0 THEN 0
    ELSE StatusSum(r, n - 1, statuses) +
         (IF commitments[n].request = r /\ commitments[n].status \in statuses
          THEN OrZero(commitments[n].amount) ELSE 0)

\* C17 as stated: reserved_qty equals the sum of the amounts of the ACTIVE
\* commitments of the Request.
C17_ReservedIsActiveSum ==
    \A r \in DOMAIN requests :
        requests[r].reserved_qty = StatusSum(r, Len(commitments), {"ACTIVE"})

\* C17 amended: reserved_qty never exceeds the sum of the amounts of the
\* commitments of the Request that are not FULFILLED (ACTIVE or CANCELLED).
C17_ReservedWithinUnexecuted ==
    \A r \in DOMAIN requests :
        requests[r].reserved_qty
            <= StatusSum(r, Len(commitments), {"ACTIVE", "CANCELLED"})

\* C17 witness: one commitment of 1 rejected, another of 1 executed: the
\* rejected amount is still reserved, the executed one is not.
C17_Witness ==
    /\ Len(commitments) = 2
    /\ \E c, d \in 1..2 :
          /\ commitments[c].status = "CANCELLED"
          /\ commitments[d].status = "FULFILLED"
          /\ commitments[c].amount = Some(1)
          /\ commitments[d].amount = Some(1)
    /\ requests["r1"].reserved_qty = 1
    /\ requests["r1"].fulfilled_qty = 1

\* C19: no step changes the amount of an existing Commitment.
C19_AmountImmutable ==
    [][/\ Len(commitments') >= Len(commitments)
       /\ \A c \in 1..Len(commitments) :
             /\ commitments'[c].amount = commitments[c].amount
             /\ commitments'[c].request = commitments[c].request]_vars

\* C19 witness: a commitment of 1 was accepted and executed, a later one was
\* created and rejected, and the first still has its amount.
C19_Witness ==
    /\ Len(commitments) = 2
    /\ commitments[1].amount = Some(1)
    /\ commitments[1].status = "FULFILLED"
    /\ commitments[2].status = "CANCELLED"

\* C14: recompute_status is defined on every combination of target_qty,
\* reserved_qty and fulfilled_qty and gives the status of the reference rule.
C14_StatusIsRule ==
    [][\A r \in DOMAIN requests :
          requests'[r] =
              [requests[r] EXCEPT !.status =
                  StatusRule(requests[r].target_qty, requests[r].reserved_qty,
                             requests[r].fulfilled_qty)]]_vars

\* C14 witness: the rule was applied to fulfilled_qty = target_qty with an
\* amount still reserved: COMPLETED.
C14_Witness ==
    /\ calls = 1
    /\ requests["r1"] = [target_qty |-> Some(2), reserved_qty |-> 1,
                         fulfilled_qty |-> 2, status |-> "COMPLETED"]

\* C15: the status recompute_status gives does not depend on the status the
\* Request has, no other field is changed, and a second application changes
\* nothing.
C15_StatusOnlyFromQuantities ==
    [][\A r \in DOMAIN requests :
          /\ \A s \in RequestStatuses :
                recompute_request_status([requests[r] EXCEPT !.status = s])
                    = requests'[r]
          /\ requests'[r].target_qty = requests[r].target_qty
          /\ requests'[r].reserved_qty = requests[r].reserved_qty
          /\ requests'[r].fulfilled_qty = requests[r].fulfilled_qty
          /\ recompute_request_status(requests'[r]) = requests'[r]
          /\ calls >= 1 => requests' = requests]_vars

\* C15 witness: the rule was applied twice to a Request with an amount
\* reserved and nothing fulfilled: RESERVED.
C15_Witness ==
    /\ calls = 2
    /\ requests["r1"] = [target_qty |-> Some(2), reserved_qty |-> 1,
                         fulfilled_qty |-> 0, status |-> "RESERVED"]

\* C18: an operation that fails (create or execute finding no Request, any
\* handler aborted) changes no row, a step inside an operation publishes
\* nothing, and an operation that succeeds has made all of its writes.
C18_AllOrNothing ==
    [][/\ response'.code >= 400
          => /\ requests' = requests
             /\ commitments' = commitments
       /\ (response' = NoResponse /\ DOMAIN requests' = DOMAIN requests)
          => /\ requests' = requests
             /\ commitments' = commitments
       /\ \A p \in Procs :
             /\ (Returns(p, "create_save") /\ response'.code = 201)
                => /\ Len(commitments') = Len(commitments) + 1
                   /\ requests'[commit[p].request].reserved_qty =
                         requests[commit[p].request].reserved_qty
                             + OrZero(commit[p].amount)
             /\ (Returns(p, "execute_save") /\ response'.code = 200)
                => /\ commitments'[commit[p].id].status = "FULFILLED"
                   /\ requests'[commit[p].request].fulfilled_qty =
                         requests[commit[p].request].fulfilled_qty
                             + OrZero(commit[p].amount)
             /\ (Returns(p, "reject_save_req") /\ response'.code = 200)
                => /\ commitments'[commit[p].id].status = "CANCELLED"
                   /\ requests'[commit[p].request].status = "OPEN"]_vars

\* C18 witness: the only call made is a create whose Request was deleted after
\* the insert: answered 404, no Commitment in the table.
C18_Witness ==
    /\ calls = 1
    /\ response = Response(404, "RelatedRequestNotFoundError")
    /\ DOMAIN requests = {}
    /\ commitments = <<>>

\* C20: execute answers 200 without error only when it made its writes, 400
\* on a commitment it reads as FULFILLED, 404 on a missing commitment or a
\* missing Request, 500 on any other failure, and every failure carries an
\* error.
C20_ExecuteStatusCodes ==
    [][\A p \in Procs :
          /\ \A c \in CommitmentIds :
                /\ (ExecuteNotFound(p, c) /\ ~Exists(c))
                   => /\ response'.code = 404
                      /\ response'.error # ""
                /\ (ExecuteGet(p, c) /\ commitments[c].status = "FULFILLED")
                   => /\ response'.code = 400
                      /\ response'.error = "CommitmentAlreadyExecutedError"
                      /\ pc'[p] = "idle"
          /\ Returns(p, "execute_lock")
             => /\ commit[p].request \notin DOMAIN requests
                /\ response'.code = 404
                /\ response'.error # ""
          /\ Returns(p, "execute_save")
             => \/ /\ response' = [code |-> 200, error |-> ""]
                   /\ commitments'[commit[p].id].status = "FULFILLED"
                \/ /\ response'.code = 500
                   /\ response'.error # ""
                   /\ requests' = requests
                   /\ commitments' = commitments]_vars

\* C20 witness: an execute in a lock cycle with a reject was aborted and
\* answered 500; the reject still waits for the request row.
C20_Witness ==
    /\ response = [code |-> 500, error |-> "OperationalError"]
    /\ \E q \in Procs : pc[q] = "reject_save_req"

\* C21: a worker that has read a Request in create, accept, reject or execute
\* holds the exclusive row lock of that Request from the read until it
\* returns.
C21_LockedFromRead ==
    \A p \in Procs :
        req[p] # NoRequest => req_lock[commit[p].request] = {p}

\* the Request of the operation worker p runs: the one named by a create, the
\* one of the named commitment otherwise
RequestOf(p) ==
    IF commit[p].id = 0 THEN commit[p].request
    ELSE commitments[commit[p].id].request

\* worker p waits for a row lock that worker q holds
WaitsFor(p, q) ==
    /\ p # q
    /\ \/ /\ pc[p] \in {"execute_lock", "accept_save", "reject_save_req"}
          /\ req_lock[commit[p].request] = {q}
       \/ /\ pc[p] \in {"reject_save_commit", "execute_save"}
          /\ commit_lock[commit[p].id] = {q}

\* C22: an operation on Request R changes no other Request and no Commitment
\* but the one it names (a create only adds a Commitment of R), rows change
\* only when an operation returns, and no worker waits for a lock held by an
\* operation on a different Request.
C22_OtherRowsUntouched ==
    [][/\ \A p \in Procs :
             (pc[p] # "idle" /\ pc'[p] = "idle")
             => /\ \A r \in DOMAIN requests :
                      r # RequestOf(p) => requests'[r] = requests[r]
                /\ \A c \in 1..Len(commitments) :
                      c # commit[p].id => commitments'[c] = commitments[c]
                /\ Len(commitments') > Len(commitments)
                   => /\ commit[p].id = 0
                      /\ Len(commitments') = Len(commitments) + 1
                      /\ commitments'[Len(commitments')].request = RequestOf(p)
       /\ (requests' # requests \/ commitments' # commitments)
          => \E p \in Procs : pc[p] # "idle" /\ pc'[p] = "idle"
       /\ \A p, q \in Procs :
             WaitsFor(p, q)' => (RequestOf(p) = RequestOf(q))']_vars

\* C22 witness: an execute on the commitment of r2 has finished while a create
\* on r1 holds the lock of r1: r2 credited, r1 as created.
C22_Witness ==
    /\ DOMAIN requests = {"r1", "r2"}
    /\ Len(commitments) = 1
    /\ commitments[1] = [request |-> "r2", amount |-> Some(MaxAmount), status |-> "FULFILLED"]
    /\ requests["r2"].fulfilled_qty = MaxAmount
    /\ requests["r1"].reserved_qty = 0 /\ requests["r1"].status = "OPEN"
    /\ response = [code |-> 200, error |-> ""]
    /\ \E q \in Procs : pc[q] = "create_save" /\ req_lock["r1"] = {q}

\* C23: no deadlock is reachable: no two workers ever wait for a row lock
\* that the other holds, so every started operation can run to its end.
C23_NoLockCycle ==
    \A p, q \in Procs : ~(WaitsFor(p, q) /\ WaitsFor(q, p))

\* C24: the write of an accept or a reject leaves target_qty, reserved_qty and
\* fulfilled_qty of the Request as they are in the table, also when the
\* snapshot the handler read is older than the table.
C24_QuantitiesNotOverwritten ==
    [][\A p \in Procs :
          (Returns(p, "accept_save") \/ Returns(p, "reject_save_req"))
          => LET r == commit[p].request IN
             /\ requests'[r].target_qty = requests[r].target_qty
             /\ requests'[r].reserved_qty = requests[r].reserved_qty
             /\ requests'[r].fulfilled_qty = requests[r].fulfilled_qty]_vars

\* C24 witness: an accept is about to write with a snapshot read before a
\* create that has since committed: the snapshot has less reserved than the
\* table.
C24_Witness ==
    /\ response = Response(201, "")
    /\ \E p \in Procs :
          /\ pc[p] = "accept_save"
          /\ req[p].reserved_qty = 0
          /\ requests[commit[p].request].reserved_qty = 1

====
